---- MODULE Spec2Model ----
(***************************************************************************)
(* Model of tax_calculator (src/tax_calculator/src/main.rs): the PTKP      *)
(* table, calculate_pph21, calculate_income_tax, calculate_vat and the     *)
(* menu loop of main.                                                      *)
(*                                                                         *)
(* f64 values are modelled as exact fractions n/d in lowest terms, with    *)
(* the three non-finite values of IEEE-754 kept apart: +inf = 1/0,         *)
(* -inf = -1/0 and NaN = 0/0.  Finite arithmetic is exact (the rounding    *)
(* error of binary floating point is not modelled; -0.0 is 0).  Lines of   *)
(* console input are sequences of one-character strings.                   *)
(***************************************************************************)
EXTENDS Integers, Sequences, FiniteSets, TLC

(***************************************************************************)
(* f64 arithmetic                                                          *)
(***************************************************************************)
Abs(x) == IF x < 0 THEN -x ELSE x

Sgn(x) == IF x < 0 THEN -1 ELSE IF x > 0 THEN 1 ELSE 0

RECURSIVE GCD(_, _)
GCD(a, b) == IF b = 0 THEN a ELSE GCD(b, a % b)

\* the fraction n/d (d > 0) in lowest terms
Frac(n, d) == LET g == GCD(Abs(n), d) IN [n |-> n \div g, d |-> d \div g]

F(n) == [n |-> n, d |-> 1]

INFINITY == [n |-> 1, d |-> 0]

NEG_INFINITY == [n |-> -1, d |-> 0]

NAN == [n |-> 0, d |-> 0]

IsNaN(x) == x.d = 0 /\ x.n = 0

IsFinite(x) == x.d > 0

FNeg(x) == [n |-> -x.n, d |-> x.d]

\* a * b
FMul(a, b) ==
    IF IsNaN(a) \/ IsNaN(b) THEN NAN
    ELSE IF a.d = 0 \/ b.d = 0
         THEN (IF a.n = 0 \/ b.n = 0 THEN NAN
               ELSE [n |-> Sgn(a.n) * Sgn(b.n), d |-> 0])
    ELSE LET g1 == GCD(Abs(a.n), b.d)
             g2 == GCD(Abs(b.n), a.d)
         IN  [n |-> (a.n \div g1) * (b.n \div g2),
              d |-> (a.d \div g2) * (b.d \div g1)]

\* a / b
FDiv(a, b) ==
    IF IsNaN(a) \/ IsNaN(b) THEN NAN
    ELSE IF b.d = 0 THEN (IF a.d = 0 THEN NAN ELSE F(0))
    ELSE IF b.n = 0 THEN (IF a.n = 0 THEN NAN
                          ELSE [n |-> Sgn(a.n), d |-> 0])
    ELSE FMul(a, [n |-> Sgn(b.n) * b.d, d |-> Abs(b.n)])

\* a + b
FAdd(a, b) ==
    IF IsNaN(a) \/ IsNaN(b) THEN NAN
    ELSE IF a.d = 0 /\ b.d = 0 THEN (IF a.n = b.n THEN a ELSE NAN)
    ELSE IF a.d = 0 THEN a
    ELSE IF b.d = 0 THEN b
    ELSE LET g == GCD(a.d, b.d)
         IN  Frac(a.n * (b.d \div g) + b.n * (a.d \div g), (a.d \div g) * b.d)

\* a - b
FSub(a, b) == FAdd(a, FNeg(b))

\* the sign of a - b, for a and b not NaN
FCmp(a, b) ==
    IF a.d = 0 /\ b.d = 0 THEN Sgn(a.n - b.n)
    ELSE IF a.d = 0 THEN a.n
    ELSE IF b.d = 0 THEN -b.n
    ELSE LET g == GCD(a.d, b.d)
         IN  Sgn(a.n * (b.d \div g) - b.n * (a.d \div g))

\* a > b and a >= b: false as soon as one side is NaN
FGt(a, b) == ~IsNaN(a) /\ ~IsNaN(b) /\ FCmp(a, b) > 0

FGe(a, b) == ~IsNaN(a) /\ ~IsNaN(b) /\ FCmp(a, b) >= 0

\* f64::max and f64::min: a NaN operand is ignored
FMax(a, b) == IF IsNaN(a) THEN b ELSE IF IsNaN(b) THEN a
              ELSE IF FCmp(a, b) >= 0 THEN a ELSE b

FMin(a, b) == IF IsNaN(a) THEN b ELSE IF IsNaN(b) THEN a
              ELSE IF FCmp(a, b) <= 0 THEN a ELSE b

\* f64::round: to the nearest integer, halves away from zero
FRound(x) ==
    IF x.d = 0 THEN x
    ELSE F(Sgn(x.n) * ((2 * Abs(x.n) + x.d) \div (2 * x.d)))

(***************************************************************************)
(* Text: a line of input, a key of the PTKP table and a formatted number   *)
(* are sequences of one-character strings.                                 *)
(***************************************************************************)
DigitChars == <<"0", "1", "2", "3", "4", "5", "6", "7", "8", "9">>

IsDigit(c) == \E i \in 1..10 : DigitChars[i] = c

DigitVal(c) == (CHOOSE i \in 1..10 : DigitChars[i] = c) - 1

IsSpace(c) == c \in {" ", "\n", "\t", "\r"}

\* str::trim: the line without its leading and trailing white space
RECURSIVE TrimStart(_)
TrimStart(s) == IF s # <<>> /\ IsSpace(Head(s)) THEN TrimStart(Tail(s)) ELSE s

RECURSIVE TrimEnd(_)
TrimEnd(s) == IF s # <<>> /\ IsSpace(s[Len(s)])
              THEN TrimEnd(SubSeq(s, 1, Len(s) - 1)) ELSE s

Trim(s) == TrimEnd(TrimStart(s))

AllDigits(s) == \A i \in 1..Len(s) : IsDigit(s[i])

\* the number a sequence of decimal digits writes
RECURSIVE DecVal(_)
DecVal(ds) == IF ds = <<>> THEN 0
              ELSE DecVal(SubSeq(ds, 1, Len(ds) - 1)) * 10 + DigitVal(ds[Len(ds)])

RECURSIVE StripZeros(_)
StripZeros(ds) == IF Len(ds) > 1 /\ Head(ds) = "0" THEN StripZeros(Tail(ds)) ELSE ds

\* digit sequences without leading zeros, same length: a <= b
RECURSIVE LexLe(_, _)
LexLe(a, b) == IF a = <<>> THEN TRUE
               ELSE IF DigitVal(Head(a)) # DigitVal(Head(b))
                    THEN DigitVal(Head(a)) < DigitVal(Head(b))
               ELSE LexLe(Tail(a), Tail(b))

\* the number ds writes is at most the number limit writes
DecLe(ds, limit) ==
    LET a == StripZeros(ds)
    IN  IF Len(a) # Len(limit) THEN Len(a) < Len(limit) ELSE LexLe(a, limit)

U32_MAX == <<"4", "2", "9", "4", "9", "6", "7", "2", "9", "5">>

I32_MAX == <<"2", "1", "4", "7", "4", "8", "3", "6", "4", "7">>

I32_MIN_ABS == <<"2", "1", "4", "7", "4", "8", "3", "6", "4", "8">>

Ok(v) == [ok |-> TRUE, v |-> v]

Err == [ok |-> FALSE, v |-> 0]

\* str::parse::<u32>: an optional "+", then digits; no "-"; overflow fails
ParseU32(s) ==
    LET ds == IF s # <<>> /\ Head(s) = "+" THEN Tail(s) ELSE s
    IN  IF ds = <<>> \/ ~AllDigits(ds) \/ ~DecLe(ds, U32_MAX) THEN Err
        ELSE Ok(DecVal(ds))

\* str::parse::<i32>: an optional "+" or "-", then digits; overflow fails
ParseI32(s) ==
    LET neg == s # <<>> /\ Head(s) = "-"
        ds  == IF s # <<>> /\ Head(s) \in {"+", "-"} THEN Tail(s) ELSE s
    IN  IF ds = <<>> \/ ~AllDigits(ds) THEN Err
        ELSE IF ~DecLe(ds, IF neg THEN I32_MIN_ABS ELSE I32_MAX) THEN Err
        ELSE Ok(IF neg THEN -DecVal(ds) ELSE DecVal(ds))

LowerChar(c) == CASE c = "I" -> "i" [] c = "N" -> "n" [] c = "F" -> "f"
                  [] c = "A" -> "a" [] c = "T" -> "t" [] c = "Y" -> "y"
                  [] OTHER -> c

Lower(s) == [i \in 1..Len(s) |-> LowerChar(s[i])]

RECURSIVE Pow10(_)
Pow10(k) == IF k = 0 THEN 1 ELSE 10 * Pow10(k - 1)

\* the position of the first "." of s, or 0
DotAt(s) == IF \E i \in 1..Len(s) : s[i] = "."
            THEN CHOOSE i \in 1..Len(s) : s[i] = "." /\ \A j \in 1..(i - 1) : s[j] # "."
            ELSE 0

\* str::parse::<f64> on lines without an exponent: an optional sign, then
\* "inf", "infinity" or "nan" in any case, or digits with at most one "."
\* and at least one digit
ParseF64(s) ==
    LET neg  == s # <<>> /\ Head(s) = "-"
        body == IF s # <<>> /\ Head(s) \in {"+", "-"} THEN Tail(s) ELSE s
        dot  == DotAt(body)
        ip   == IF dot = 0 THEN body ELSE SubSeq(body, 1, dot - 1)
        fp   == IF dot = 0 THEN <<>> ELSE SubSeq(body, dot + 1, Len(body))
        mag  == Frac(DecVal(ip \o fp), Pow10(Len(fp)))
    IN  IF Lower(body) \in {<<"i", "n", "f">>,
                            <<"i", "n", "f", "i", "n", "i", "t", "y">>}
        THEN Ok(IF neg THEN NEG_INFINITY ELSE INFINITY)
        ELSE IF Lower(body) = <<"n", "a", "n">> THEN Ok(NAN)
        ELSE IF ip \o fp = <<>> \/ ~AllDigits(ip \o fp) THEN Err
        ELSE Ok(IF neg THEN FNeg(mag) ELSE mag)

\* Display of an integer
RECURSIVE FmtNat(_)
FmtNat(n) == IF n < 10 THEN <<DigitChars[n + 1]>>
             ELSE FmtNat(n \div 10) \o <<DigitChars[(n % 10) + 1]>>

FmtInt(n) == IF n < 0 THEN <<"-">> \o FmtNat(-n) ELSE FmtNat(n)

(***************************************************************************)
(* The PTKP table and calculate_pph21                                      *)
(***************************************************************************)
get_ptkp_values ==
    (<<"T", "K", "/", "0">> :> F(54000000)) @@
    (<<"K", "/", "0">> :> F(58500000)) @@
    (<<"K", "/", "1">> :> F(63000000)) @@
    (<<"K", "/", "2">> :> F(67500000)) @@
    (<<"K", "/", "3">> :> F(72000000))

\* a lookup whose default is the exemption of TK/0 instead of 0.0
PtkpLookup_DefaultSingle(key) ==
    IF key \in DOMAIN get_ptkp_values THEN get_ptkp_values[key] ELSE F(54000000)

\* get_ptkp_values().get(key).copied().unwrap_or(0.0)
PtkpLookup(key) ==
    IF key \in DOMAIN get_ptkp_values THEN get_ptkp_values[key] ELSE F(0)

\* format!("{}/{}", if is_married { "K" } else { "TK" }, num_dependents)
PtkpKey(is_married, num_dependents) ==
    (IF is_married THEN <<"K">> ELSE <<"T", "K">>) \o <<"/">> \o FmtInt(num_dependents)

pph_21_rate == FDiv(Frac(75, 100), F(100))

\* the tax taken on PKP instead of on gross income
calculate_pph21_TaxOnPkp(params) ==
    LET monthly_gross == params.gross_income
        annual_gross  == FMul(monthly_gross, F(12))
        ptkp          == PtkpLookup(PtkpKey(params.is_married, params.num_dependents))
        pkp           == FMax(FSub(annual_gross, ptkp), F(0))
    IN  [annual_tax |-> FRound(FMul(pkp, pph_21_rate)),
         monthly_tax |-> FRound(FMul(FDiv(pkp, F(12)), pph_21_rate)),
         ptkp |-> ptkp, pkp |-> pkp]

\* PKP without its floor at 0
calculate_pph21_NoFloor(params) ==
    LET monthly_gross == params.gross_income
        annual_gross  == FMul(monthly_gross, F(12))
        ptkp          == PtkpLookup(PtkpKey(params.is_married, params.num_dependents))
    IN  [annual_tax |-> FRound(FMul(annual_gross, pph_21_rate)),
         monthly_tax |-> FRound(FMul(monthly_gross, pph_21_rate)),
         ptkp |-> ptkp, pkp |-> FSub(annual_gross, ptkp)]

calculate_pph21(params) ==
    LET monthly_gross == params.gross_income
        annual_gross  == FMul(monthly_gross, F(12))
        ptkp_key      == PtkpKey(params.is_married, params.num_dependents)
        ptkp          == PtkpLookup(ptkp_key)
        pkp           == FMax(FSub(annual_gross, ptkp), F(0))
        annual_tax    == FRound(FMul(annual_gross, pph_21_rate))
        monthly_tax   == FRound(FMul(monthly_gross, pph_21_rate))
    IN  [annual_tax |-> annual_tax, monthly_tax |-> monthly_tax,
         ptkp |-> ptkp, pkp |-> pkp]

(***************************************************************************)
(* calculate_income_tax, the bracket table of main, and calculate_vat      *)
(***************************************************************************)
\* f64::MAX, the largest finite f64 (about 1.8e308): it stands here as a
\* finite value above every finite amount of the model
F64_MAX == F(2000000000)

TaxBracket(lower_bound, upper_bound, rate) ==
    [lower_bound |-> lower_bound, upper_bound |-> upper_bound, rate |-> rate]

tax_brackets ==
    << TaxBracket(F(0), F(50000000), Frac(5, 100)),
       TaxBracket(F(50000000), F(250000000), Frac(15, 100)),
       TaxBracket(F(250000000), F(500000000), Frac(25, 100)),
       TaxBracket(F(500000000), F64_MAX, Frac(30, 100)) >>

\* the whole width of the bracket taxed, whatever the income
BracketTax_NoMin(income, bracket) ==
    FMul(FSub(bracket.upper_bound, bracket.lower_bound), bracket.rate)

\* the body of the loop, once income > bracket.lower_bound
BracketTax(income, bracket) ==
    LET taxable_amount == FSub(FMin(income, bracket.upper_bound), bracket.lower_bound)
    IN  FMul(taxable_amount, bracket.rate)

\* the loop without its test of the lower bound: no bracket is skipped
RECURSIVE TaxLoop_NoBreak(_, _, _, _)
TaxLoop_NoBreak(income, brackets, i, tax) ==
    IF i > Len(brackets) THEN tax
    ELSE TaxLoop_NoBreak(income, brackets, i + 1,
                         FAdd(tax, BracketTax(income, brackets[i])))

\* the for loop from bracket i on, with the running total tax
RECURSIVE TaxLoop(_, _, _, _)
TaxLoop(income, brackets, i, tax) ==
    IF i > Len(brackets) THEN tax
    ELSE IF FGt(income, brackets[i].lower_bound)
         THEN TaxLoop(income, brackets, i + 1, FAdd(tax, BracketTax(income, brackets[i])))
         ELSE tax

calculate_income_tax(income, brackets) == TaxLoop(income, brackets, 1, F(0))

\* the rate taken as a fraction, not as a percentage
calculate_vat_NoPercent(amount, vat_rate) == FMul(amount, vat_rate)

calculate_vat(amount, vat_rate) == FDiv(FMul(amount, vat_rate), F(100))

default_vat_rate == F(11)

(***************************************************************************)
(* State                                                                   *)
(***************************************************************************)
VARIABLES
    pc,             \* main: the read_line the program waits at, or "exit";
                    \* a direct call of a calculator: "call", then "return"
    income,         \* choice 1: the String income, read before it is parsed
    amount,         \* choice 4: the String amount, read before it is parsed
    net_salary,     \* choice 2: the accepted net salary
    is_married,     \* choices 1 and 2: status.trim() == "2"
    out,            \* what the current pass of the loop has printed
    calls,          \* the calculators the current pass has called
    last,           \* the lines the current pass has read from stdin
    args,           \* a direct call: the function and its arguments
    ret             \* a direct call: the value returned

vars == <<pc, income, amount, net_salary, is_married, out, calls, last, args, ret>>

NoLine == <<"(unread)">>

NoLines == [choice |-> NoLine, amount |-> NoLine, status |-> NoLine,
            deps |-> NoLine, rate |-> NoLine]

Nothing == [kind |-> "nothing"]

\* println!("Masukan tidak valid. Harap masukkan angka positif.")
Rejected == [kind |-> "rejected"]

\* println!("Pilihan tidak valid. Silakan pilih 1, 2, 3, 4, atau 5.")
InvalidChoice == [kind |-> "invalid_choice"]

\* println!("\nTerima kasih telah menggunakan kalkulator pajak!")
Goodbye == [kind |-> "goodbye"]

NoCall == [fn |-> "none"]

\* the locals of a pass are dropped at its end
LocalsDropped ==
    /\ income' = NoLine
    /\ amount' = NoLine
    /\ net_salary' = F(0)
    /\ is_married' = FALSE

MainIdle ==
    /\ income = NoLine
    /\ amount = NoLine
    /\ net_salary = F(0)
    /\ is_married = FALSE
    /\ out = Nothing
    /\ calls = <<>>
    /\ last = NoLines

DirectIdle == args = NoCall /\ ret = Nothing

(***************************************************************************)
(* The lines a user may type.  read_line keeps the line's "\n"; at the     *)
(* end of stdin it leaves the String empty.                                *)
(***************************************************************************)
MaxChoice == 6

MaxSalarySteps == 4

MaxDepsEntry == 5

MaxRateEntry == 12

Line(s) == s \o <<"\n">>

\* lines that are no number, and the non-finite numbers parse::<f64> accepts
OddLines ==
    { <<>>, Line(<<>>), Line(<<"a", "b", "c">>), Line(<<"1", "2", "x">>),
      Line(<<"i", "n", "f">>), Line(<<"-", "i", "n", "f">>), Line(<<"N", "a", "N">>) }

ChoiceLines ==
    {Line(FmtInt(k)) : k \in 0..MaxChoice}
        \cup {<<>>, Line(<<"x">>), Line(<<" ", "2", " ">>), Line(<<"1", "0">>)}

SalaryLines ==
    {Line(FmtInt(k * 1500000)) : k \in 0..MaxSalarySteps}
        \cup {Line(FmtInt(-1)), Line(FmtInt(10000000)), Line(<<"0", ".", "5">>)}
        \cup OddLines

StatusLines == {Line(<<"1">>), Line(<<"2">>), Line(<<" ", "2">>), Line(<<"3">>), <<>>}

DepsLines ==
    {Line(FmtInt(k)) : k \in (-2)..MaxDepsEntry}
        \cup {<<>>, Line(<<"+", "2">>), Line(<<"2", ".", "5">>), Line(<<"a", "b", "c">>),
              Line(<<"9", "9", "9", "9", "9", "9", "9", "9", "9", "9", "9">>)}

IncomeLines ==
    {Line(FmtInt(k * 50000000)) : k \in {0, 1, 2, 5, 10, 12}}
        \cup {Line(FmtInt(-1)), Line(FmtInt(1))} \cup OddLines

PriceLines ==
    {Line(FmtInt(k)) : k \in {-100, 0, 100, 250}} \cup {Line(<<"0", ".", "5">>)} \cup OddLines

RateLines ==
    {Line(FmtInt(k)) : k \in {-5, 0, 10, 11, MaxRateEntry}}
        \cup {Line(<<"1", "2", ".", "5">>)} \cup OddLines

(***************************************************************************)
(* main: one action per read_line, with everything the program does up to  *)
(* the next read_line                                                      *)
(***************************************************************************)
\* num_dependents of choice 1, a u32 (the field of PPh21Params)
DependentsU32(deps) ==
    LET p == ParseU32(Trim(deps))
        n == IF p.ok THEN p.v ELSE 0
    IN  IF n > 3 THEN 3 ELSE n

\* num_dependents of choice 2, where nothing but the literals 0 and 3 fixes
\* the integer type: an i32
DependentsI32(deps) ==
    LET p == ParseI32(Trim(deps))
        n == IF p.ok THEN p.v ELSE 0
    IN  IF n > 3 THEN 3 ELSE n

\* the match without its guard: every number is accepted
Accepted_NoSignCheck(line) == ParseF64(Trim(line)).ok

\* match income.trim().parse::<f64>() { Ok(amount) if amount >= 0.0 => ..
Accepted(line) ==
    LET p == ParseF64(Trim(line)) IN p.ok /\ FGe(p.v, F(0))

AmountOf(line) == ParseF64(Trim(line)).v

\* choice 1, from the match on income to the end of the arm
GrossPrinted(income_line, married, num_dependents) ==
    IF Accepted(income_line)
    THEN LET params == [gross_income |-> AmountOf(income_line),
                        is_married |-> married,
                        num_dependents |-> num_dependents]
             r == calculate_pph21(params)
         IN  [kind |-> "pph21_gross", amount |-> params.gross_income,
              is_married |-> married, num_dependents |-> num_dependents,
              ptkp_key |-> PtkpKey(married, num_dependents),
              ptkp |-> r.ptkp, pkp |-> r.pkp,
              annual_tax |-> r.annual_tax, monthly_tax |-> r.monthly_tax]
    ELSE Rejected

GrossCalls(income_line, married, num_dependents) ==
    IF Accepted(income_line)
    THEN << [fn |-> "calculate_pph21", gross_income |-> AmountOf(income_line),
             is_married |-> married, num_dependents |-> num_dependents] >>
    ELSE <<>>

\* the tax taken as 0.75% of the net salary entered, not of the fixed DPP
GrossUpPrinted_TaxOnNet(net, married, num_dependents) ==
    LET pph_21_monthly == FRound(FDiv(FMul(net, Frac(75, 100)), F(100))).n
        gross_salary   == FAdd(net, F(pph_21_monthly))
        ptkp_key       == PtkpKey(married, num_dependents)
        ptkp           == PtkpLookup(ptkp_key)
        pkp            == FMax(FSub(FMul(gross_salary, F(12)), ptkp), F(0))
    IN  [kind |-> "pph21_gross_up", amount |-> net, gross_salary |-> gross_salary,
         is_married |-> married, num_dependents |-> num_dependents,
         ptkp_key |-> ptkp_key, ptkp |-> ptkp, pkp |-> pkp,
         annual_tax |-> FRound(FMul(F(pph_21_monthly), F(12))),
         monthly_tax |-> F(pph_21_monthly)]

\* choice 2, from the computation of dpp to the end of the arm
GrossUpPrinted(net, married, num_dependents) ==
    LET dpp            == F(6045340)
        pph_21_percent == Frac(75, 100)
        pph_21_monthly == FRound(FDiv(FMul(dpp, pph_21_percent), F(100))).n
        gross_salary   == FAdd(net, F(pph_21_monthly))
        ptkp_key       == PtkpKey(married, num_dependents)
        ptkp           == PtkpLookup(ptkp_key)
        annual_gross   == FMul(gross_salary, F(12))
        pkp            == FMax(FSub(annual_gross, ptkp), F(0))
        monthly_tax    == F(pph_21_monthly)
        annual_tax     == FRound(FMul(monthly_tax, F(12)))
    IN  [kind |-> "pph21_gross_up", amount |-> net, gross_salary |-> gross_salary,
         is_married |-> married, num_dependents |-> num_dependents,
         ptkp_key |-> ptkp_key, ptkp |-> ptkp, pkp |-> pkp,
         annual_tax |-> annual_tax, monthly_tax |-> monthly_tax]

GrossUpCalls(net, married, num_dependents) ==
    << [fn |-> "get_ptkp_values", amount |-> net,
        key |-> PtkpKey(married, num_dependents)] >>

\* the default arm leaving the loop instead of printing the message
ReadChoice_ExitOnUnknown(line) ==
    /\ pc = "menu"
    /\ last' = [NoLines EXCEPT !.choice = line]
    /\ calls' = <<>>
    /\ LET c == Trim(line)
       IN  /\ pc' = CASE c = <<"1">> -> "gross_income"
                      [] c = <<"2">> -> "gross_up_net"
                      [] c = <<"3">> -> "tax_income"
                      [] c = <<"4">> -> "vat_amount"
                      [] OTHER -> "exit"
           /\ out' = CASE c \in {<<"1">>, <<"2">>, <<"3">>, <<"4">>} -> Nothing
                       [] OTHER -> Goodbye
    /\ LocalsDropped
    /\ UNCHANGED <<args, ret>>

\* the menu is printed and the choice read
ReadChoice(line) ==
    /\ pc = "menu"
    /\ last' = [NoLines EXCEPT !.choice = line]
    /\ calls' = <<>>
    /\ LET c == Trim(line)
       IN  /\ pc' = CASE c = <<"1">> -> "gross_income"
                      [] c = <<"2">> -> "gross_up_net"
                      [] c = <<"3">> -> "tax_income"
                      [] c = <<"4">> -> "vat_amount"
                      [] c = <<"5">> -> "exit"
                      [] OTHER -> "menu"
           /\ out' = CASE c \in {<<"1">>, <<"2">>, <<"3">>, <<"4">>} -> Nothing
                       [] c = <<"5">> -> Goodbye
                       [] OTHER -> InvalidChoice
    /\ LocalsDropped
    /\ UNCHANGED <<args, ret>>

GrossReadIncome(line) ==
    /\ pc = "gross_income"
    /\ income' = line
    /\ last' = [last EXCEPT !.amount = line]
    /\ pc' = "gross_status"
    /\ UNCHANGED <<amount, net_salary, is_married, out, calls, args, ret>>

GrossReadStatus(line) ==
    /\ pc = "gross_status"
    /\ last' = [last EXCEPT !.status = line]
    /\ LET married == (Trim(line) = <<"2">>)
       IN  IF married
           THEN /\ is_married' = TRUE
                /\ pc' = "gross_deps"
                /\ UNCHANGED <<income, amount, net_salary, out, calls>>
           ELSE /\ out' = GrossPrinted(income, FALSE, 0)
                /\ calls' = GrossCalls(income, FALSE, 0)
                /\ pc' = "menu"
                /\ LocalsDropped
    /\ UNCHANGED <<args, ret>>

GrossReadDeps(line) ==
    /\ pc = "gross_deps"
    /\ last' = [last EXCEPT !.deps = line]
    /\ out' = GrossPrinted(income, is_married, DependentsU32(line))
    /\ calls' = GrossCalls(income, is_married, DependentsU32(line))
    /\ pc' = "menu"
    /\ LocalsDropped
    /\ UNCHANGED <<args, ret>>

GrossUpReadNet(line) ==
    /\ pc = "gross_up_net"
    /\ last' = [last EXCEPT !.amount = line]
    /\ IF Accepted(line)
       THEN /\ net_salary' = AmountOf(line)
            /\ pc' = "gross_up_status"
            /\ UNCHANGED <<income, amount, is_married, out, calls>>
       ELSE /\ out' = Rejected
            /\ pc' = "menu"
            /\ LocalsDropped
            /\ UNCHANGED calls
    /\ UNCHANGED <<args, ret>>

GrossUpReadStatus(line) ==
    /\ pc = "gross_up_status"
    /\ last' = [last EXCEPT !.status = line]
    /\ LET married == (Trim(line) = <<"2">>)
       IN  IF married
           THEN /\ is_married' = TRUE
                /\ pc' = "gross_up_deps"
                /\ UNCHANGED <<income, amount, net_salary, out, calls>>
           ELSE /\ out' = GrossUpPrinted(net_salary, FALSE, 0)
                /\ calls' = GrossUpCalls(net_salary, FALSE, 0)
                /\ pc' = "menu"
                /\ LocalsDropped
    /\ UNCHANGED <<args, ret>>

GrossUpReadDeps(line) ==
    /\ pc = "gross_up_deps"
    /\ last' = [last EXCEPT !.deps = line]
    /\ out' = GrossUpPrinted(net_salary, is_married, DependentsI32(line))
    /\ calls' = GrossUpCalls(net_salary, is_married, DependentsI32(line))
    /\ pc' = "menu"
    /\ LocalsDropped
    /\ UNCHANGED <<args, ret>>

TaxReadIncome(line) ==
    /\ pc = "tax_income"
    /\ last' = [last EXCEPT !.amount = line]
    /\ IF Accepted(line)
       THEN LET tax == calculate_income_tax(AmountOf(line), tax_brackets)
            IN  /\ out' = [kind |-> "income_tax", amount |-> AmountOf(line),
                           tax |-> tax, net |-> FSub(AmountOf(line), tax)]
                /\ calls' = << [fn |-> "calculate_income_tax",
                                income |-> AmountOf(line)] >>
       ELSE /\ out' = Rejected
            /\ UNCHANGED calls
    /\ pc' = "menu"
    /\ LocalsDropped
    /\ UNCHANGED <<args, ret>>

VatReadAmount(line) ==
    /\ pc = "vat_amount"
    /\ amount' = line
    /\ last' = [last EXCEPT !.amount = line]
    /\ pc' = "vat_rate"
    /\ UNCHANGED <<income, net_salary, is_married, out, calls, args, ret>>

\* vat_rate_input.trim().parse::<f64>().unwrap_or(default_vat_rate)
VatRateOf(line) ==
    LET p == ParseF64(Trim(line)) IN IF p.ok THEN p.v ELSE default_vat_rate

VatReadRate(line) ==
    /\ pc = "vat_rate"
    /\ last' = [last EXCEPT !.rate = line]
    /\ LET vat_rate == VatRateOf(line)
       IN  IF Accepted(amount)
           THEN LET vat == calculate_vat(AmountOf(amount), vat_rate)
                IN  /\ out' = [kind |-> "vat", amount |-> AmountOf(amount),
                               vat_rate |-> vat_rate, vat |-> vat,
                               total |-> FAdd(AmountOf(amount), vat)]
                    /\ calls' = << [fn |-> "calculate_vat",
                                    amount |-> AmountOf(amount),
                                    vat_rate |-> vat_rate] >>
           ELSE /\ out' = Rejected
                /\ UNCHANGED calls
    /\ pc' = "menu"
    /\ LocalsDropped
    /\ UNCHANGED <<args, ret>>

Init ==
    /\ pc = "menu"
    /\ MainIdle
    /\ DirectIdle

Next ==
    \/ \E line \in ChoiceLines : ReadChoice(line)
    \/ \E line \in SalaryLines : GrossReadIncome(line)
    \/ \E line \in StatusLines : GrossReadStatus(line)
    \/ \E line \in DepsLines : GrossReadDeps(line)
    \/ \E line \in SalaryLines : GrossUpReadNet(line)
    \/ \E line \in StatusLines : GrossUpReadStatus(line)
    \/ \E line \in DepsLines : GrossUpReadDeps(line)
    \/ \E line \in IncomeLines : TaxReadIncome(line)
    \/ \E line \in PriceLines : VatReadAmount(line)
    \/ \E line \in RateLines : VatReadRate(line)

Spec == Init /\ [][Next]_vars

(***************************************************************************)
(* Direct calls of the calculators, as the tests of the source make them:  *)
(* the arguments are drawn from bounded sets, the call returns a value.    *)
(***************************************************************************)
MaxDependents == 4

MaxBrackets == 3

MaxVatSteps == 4

GrossSamples ==
    {F(k * 1500000) : k \in 0..MaxSalarySteps}
        \cup {F(10000000), F(200), F(66), F(67), Frac(1, 2), INFINITY}

KeySamples ==
    {PtkpKey(m, n) : m \in BOOLEAN, n \in (-1)..MaxDependents}
        \cup {<<>>, <<"k", "/", "0">>, <<"K", "/", "0", "0">>, <<"K", "0">>,
              <<"T", "K">>, <<"K", "/", "3", " ">>}

CutPoints == {F(0), F(50000000), F(250000000), F(500000000), F64_MAX}

RateSamples == {Frac(5, 100), Frac(15, 100)}

\* the lists of k brackets that are contiguous (each upper bound is the next
\* lower bound) and ascending (no upper bound below its lower bound)
ContiguousBrackets(k) ==
    { [i \in 1..k |-> TaxBracket(cuts[i], cuts[i + 1], rates[i])] :
        cuts \in {c \in [1..(k + 1) -> CutPoints] :
                    \A i \in 1..k : FCmp(c[i], c[i + 1]) <= 0},
        rates \in [1..k -> RateSamples] }

BracketSamples ==
    {tax_brackets} \cup UNION {ContiguousBrackets(k) : k \in 0..MaxBrackets}

IncomeSamples ==
    {F(k * 50000000) : k \in {-1, 0, 1, 2, 5, 6, 10, 12}}
        \cup {F(25000000), F(-1), INFINITY, NEG_INFINITY}

VatAmountSamples ==
    {F(k * 50) : k \in 0..MaxVatSteps} \cup {Frac(1, 2), F(1000000), INFINITY}

VatRateSamples ==
    {F(0), F(10), F(11), F(-5), Frac(25, 2), INFINITY, NEG_INFINITY, NAN}

CallCalculatePph21 ==
    /\ pc = "call"
    /\ args.fn = "calculate_pph21"
    /\ ret' = calculate_pph21(args)
    /\ pc' = "return"
    /\ UNCHANGED <<income, amount, net_salary, is_married, out, calls, last, args>>

CallPtkpLookup ==
    /\ pc = "call"
    /\ args.fn = "get_ptkp_values"
    /\ ret' = [ptkp |-> PtkpLookup(args.key)]
    /\ pc' = "return"
    /\ UNCHANGED <<income, amount, net_salary, is_married, out, calls, last, args>>

CallCalculateIncomeTax ==
    /\ pc = "call"
    /\ args.fn = "calculate_income_tax"
    /\ ret' = calculate_income_tax(args.income, args.brackets)
    /\ pc' = "return"
    /\ UNCHANGED <<income, amount, net_salary, is_married, out, calls, last, args>>

CallCalculateVat ==
    /\ pc = "call"
    /\ args.fn = "calculate_vat"
    /\ ret' = calculate_vat(args.amount, args.vat_rate)
    /\ pc' = "return"
    /\ UNCHANGED <<income, amount, net_salary, is_married, out, calls, last, args>>

InitPph21 ==
    /\ pc = "call"
    /\ MainIdle
    /\ ret = Nothing
    /\ args \in [fn : {"calculate_pph21"}, gross_income : GrossSamples,
                 is_married : BOOLEAN, num_dependents : 0..MaxDependents]
                \cup [fn : {"get_ptkp_values"}, key : KeySamples]

NextPph21 == CallCalculatePph21 \/ CallPtkpLookup

SpecPph21 == InitPph21 /\ [][NextPph21]_vars

InitIncomeTax ==
    /\ pc = "call"
    /\ MainIdle
    /\ ret = Nothing
    /\ args \in [fn : {"calculate_income_tax"}, income : IncomeSamples,
                 brackets : BracketSamples]

NextIncomeTax == CallCalculateIncomeTax

SpecIncomeTax == InitIncomeTax /\ [][NextIncomeTax]_vars

InitVat ==
    /\ pc = "call"
    /\ MainIdle
    /\ ret = Nothing
    /\ args \in [fn : {"calculate_vat"}, amount : VatAmountSamples,
                 vat_rate : VatRateSamples]

NextVat == CallCalculateVat

SpecVat == InitVat /\ [][NextVat]_vars

(***************************************************************************)
(* Properties                                                              *)
(***************************************************************************)
Returned(fn) == pc = "return" /\ args.fn = fn

\* n/d (n >= 0, d > 0) rounded to the nearest integer, halves upwards
NearestInt(n, d) == (2 * n + d) \div (2 * d)

\* C1: for every monthly gross income g >= 0 and every (is_married,
\* num_dependents), calculate_pph21 returns monthly_tax = round(g * 0.0075)
\* and annual_tax = round(12 * g * 0.0075), halves away from zero; neither
\* depends on is_married or num_dependents (hence on PTKP or PKP); both are 0
\* for g = 0; 6,000,000 gives 45,000 and 540,000; 10,000,000 gives 75,000
\* and 900,000.
C1_FlatTaxOnGross ==
    Returned("calculate_pph21") =>
        LET g == args.gross_income
            others == {calculate_pph21([args EXCEPT !.is_married = m,
                                                    !.num_dependents = k]) :
                          m \in BOOLEAN, k \in 0..MaxDependents}
        IN  /\ IsFinite(g) =>
                 /\ ret.monthly_tax = F(NearestInt(3 * g.n, 400 * g.d))
                 /\ ret.annual_tax = F(NearestInt(36 * g.n, 400 * g.d))
            /\ g = INFINITY => ret.monthly_tax = INFINITY /\ ret.annual_tax = INFINITY
            /\ \A r \in others : /\ r.monthly_tax = ret.monthly_tax
                                 /\ r.annual_tax = ret.annual_tax
            /\ g = F(0) => ret.monthly_tax = F(0) /\ ret.annual_tax = F(0)
            /\ g = F(6000000) => ret.monthly_tax = F(45000) /\ ret.annual_tax = F(540000)
            /\ g = F(10000000) => ret.monthly_tax = F(75000) /\ ret.annual_tax = F(900000)

\* C1 witness: a gross income of 200, whose tax 1.5 is a half, rounds to 2
\* for a married employee with dependents
C1_Witness ==
    /\ Returned("calculate_pph21")
    /\ args.gross_income = F(200)
    /\ args.is_married /\ args.num_dependents = 2
    /\ ret.monthly_tax = F(2) /\ ret.annual_tax = F(18)

\* the exemption the table gives (is_married, num_dependents)
PtkpOfStatus(m, k) ==
    IF m THEN (IF k \in 0..3 THEN 58500000 + k * 4500000 ELSE 0)
    ELSE (IF k = 0 THEN 54000000 ELSE 0)

\* C2: the PTKP lookup returns 54,000,000 for TK/0, 58,500,000 for K/0,
\* 63,000,000 for K/1, 67,500,000 for K/2 and 72,000,000 for K/3, and 0 for
\* every other code; in calculate_pph21 the code is "K" or "TK", "/" and
\* num_dependents, so (unmarried, 1) and (married, 4) yield PTKP = 0.
C2_PtkpLookupTotal ==
    /\ Returned("get_ptkp_values") =>
          ret.ptkp = CASE args.key = <<"T", "K", "/", "0">> -> F(54000000)
                       [] args.key = <<"K", "/", "0">> -> F(58500000)
                       [] args.key = <<"K", "/", "1">> -> F(63000000)
                       [] args.key = <<"K", "/", "2">> -> F(67500000)
                       [] args.key = <<"K", "/", "3">> -> F(72000000)
                       [] OTHER -> F(0)
    /\ Returned("calculate_pph21") =>
          ret.ptkp = F(PtkpOfStatus(args.is_married, args.num_dependents))

\* C2 witness: a married employee with 4 dependents gets the code K/4, which
\* the table does not hold, and PTKP 0
C2_Witness ==
    /\ Returned("calculate_pph21")
    /\ args.is_married /\ args.num_dependents = 4
    /\ PtkpKey(args.is_married, args.num_dependents) \notin DOMAIN get_ptkp_values
    /\ ret.ptkp = F(0)

NonNegative(x) == ~IsNaN(x) /\ x.n >= 0

\* C3: for every monthly gross income g >= 0 and every (is_married,
\* num_dependents), calculate_pph21 returns PKP = max(0, 12 * g - PTKP); the
\* four outputs are non-negative; PKP is 0 whenever 12 * g <= PTKP, and is
\* 18,000,000 for g = 6,000,000 with status TK/0.
C3_PkpFloorAtZero ==
    Returned("calculate_pph21") =>
        LET g == args.gross_income
            p == PtkpOfStatus(args.is_married, args.num_dependents)
            diff == 12 * g.n - p * g.d
        IN  /\ IsFinite(g) =>
                 /\ IsFinite(ret.pkp)
                 /\ ret.pkp.n * g.d = (IF diff > 0 THEN diff ELSE 0) * ret.pkp.d
                 /\ diff <= 0 => ret.pkp = F(0)
            /\ g = INFINITY => ret.pkp = INFINITY
            /\ NonNegative(ret.annual_tax) /\ NonNegative(ret.monthly_tax)
            /\ NonNegative(ret.ptkp) /\ NonNegative(ret.pkp)
            /\ (g = F(6000000) /\ ~args.is_married /\ args.num_dependents = 0)
                  => ret.pkp = F(18000000)

\* C3 witness: 4,500,000 a month is 54,000,000 a year, the PTKP of TK/0, and
\* PKP is 0; the tax is not
C3_Witness ==
    /\ Returned("calculate_pph21")
    /\ args.gross_income = F(4500000)
    /\ ~args.is_married /\ args.num_dependents = 0
    /\ ret.ptkp = F(54000000) /\ ret.pkp = F(0)
    /\ ret.annual_tax = F(405000)

\* the sum over the first k brackets of rate * max(0, min(income, upper) - lower)
RECURSIVE ProgressiveSum(_, _, _)
ProgressiveSum(x, brackets, k) ==
    IF k = 0 THEN F(0)
    ELSE FAdd(ProgressiveSum(x, brackets, k - 1),
              FMul(brackets[k].rate,
                   FMax(F(0), FSub(FMin(x, brackets[k].upper_bound),
                                   brackets[k].lower_bound))))

IntMin(a, b) == IF a <= b THEN a ELSE b

IntMax(a, b) == IF a >= b THEN a ELSE b

\* the 2023 progressive tax on m million, in units of 10,000
Progressive2023(m) ==
    5 * IntMin(m, 50) + 15 * IntMax(0, IntMin(m, 250) - 50)
        + 25 * IntMax(0, IntMin(m, 500) - 250) + 30 * IntMax(0, m - 500)

\* C4: for every income >= 0 and every list of brackets that is contiguous
\* and ascending, calculate_income_tax, which stops at the first bracket
\* whose lower bound is >= income, returns the sum over all brackets of
\* rate * max(0, min(income, upper) - lower), unrounded; for the table of
\* main this is the progressive tax at 5%, 15%, 25% and 30%.
C4_EarlyExitEqualsFullSum ==
    (Returned("calculate_income_tax") /\ FGe(args.income, F(0))) =>
        /\ ret = ProgressiveSum(args.income, args.brackets, Len(args.brackets))
        /\ (/\ args.brackets = tax_brackets
            /\ IsFinite(args.income)
            /\ args.income.d = 1
            /\ args.income.n % 1000000 = 0)
              => ret = F(10000 * Progressive2023(args.income.n \div 1000000))

\* C4 witness: 100,000,000 on the table of main: the loop stops at the third
\* of four brackets, and the tax is 2,500,000 + 7,500,000
C4_Witness ==
    /\ Returned("calculate_income_tax")
    /\ args.brackets = tax_brackets
    /\ args.income = F(100000000)
    /\ ~FGt(args.income, args.brackets[3].lower_bound)
    /\ ret = F(10000000)

\* the sum of rate * (upper - lower) over the first k brackets
RECURSIVE SpanSum(_, _)
SpanSum(brackets, k) ==
    IF k = 0 THEN F(0)
    ELSE FAdd(SpanSum(brackets, k - 1),
              FMul(brackets[k].rate,
                   FSub(brackets[k].upper_bound, brackets[k].lower_bound)))

\* C5: in calculate_income_tax every income <= 0 yields tax 0; for an income
\* equal to the boundary B between bracket i and bracket i+1, bracket i
\* contributes rate_i * (B - lower_i), its full span, and bracket i+1 and the
\* later ones contribute 0, so that the tax is the sum of the full spans of
\* brackets 1..i; on the table of main 50M gives 2.5M, 250M gives 32.5M and
\* 500M gives 95M.
C5_ZeroAndBoundary ==
    Returned("calculate_income_tax") =>
        LET b == args.brackets
        IN  /\ (~IsNaN(args.income) /\ FCmp(args.income, F(0)) <= 0) => ret = F(0)
            /\ \A i \in 1..(Len(b) - 1) :
                  (args.income = b[i].upper_bound /\ args.income = b[i + 1].lower_bound)
                      => /\ ret = SpanSum(b, i)
                         /\ FSub(ret, SpanSum(b, i - 1))
                              = FMul(b[i].rate, FSub(args.income, b[i].lower_bound))
            /\ b = tax_brackets =>
                  /\ args.income = F(50000000) => ret = F(2500000)
                  /\ args.income = F(250000000) => ret = F(32500000)
                  /\ args.income = F(500000000) => ret = F(95000000)

\* C5 witness: 250,000,000 is the boundary of the second and third brackets
\* of the table of main; the tax is 2,500,000 + 30,000,000
C5_Witness ==
    /\ Returned("calculate_income_tax")
    /\ args.brackets = tax_brackets
    /\ args.income = args.brackets[2].upper_bound
    /\ args.income = args.brackets[3].lower_bound
    /\ ret = F(32500000)

\* calculate_vat returned amount * vat_rate / 100 exactly, for finite arguments
VatIsExactPercentage ==
    LET a == args.amount
        r == args.vat_rate
    IN  (IsFinite(a) /\ IsFinite(r)) =>
            /\ IsFinite(ret)
            /\ ret.n * (a.d * r.d * 100) = a.n * r.n * ret.d

\* C7 as stated: for every amount >= 0 and every rate, calculate_vat returns
\* amount * rate / 100, unrounded; calculate_vat(0, r) = 0 for every rate r
\* and calculate_vat(100, 11) = 11.
C7_AsStated ==
    (Returned("calculate_vat") /\ FGe(args.amount, F(0))) =>
        /\ VatIsExactPercentage
        /\ args.amount = F(0) => ret = F(0)
        /\ (args.amount = F(100) /\ args.vat_rate = F(11)) => ret = F(11)

\* C7, amended: for every amount >= 0 and every rate, calculate_vat returns
\* amount * rate / 100, unrounded; calculate_vat(0, r) = 0 for every finite
\* rate r, and is NaN for a rate that is infinite or NaN;
\* calculate_vat(100, 11) = 11.
C7_ZeroForFiniteRate ==
    (Returned("calculate_vat") /\ FGe(args.amount, F(0))) =>
        /\ VatIsExactPercentage
        /\ (args.amount = F(0) /\ IsFinite(args.vat_rate)) => ret = F(0)
        /\ (args.amount = F(0) /\ ~IsFinite(args.vat_rate)) => IsNaN(ret)
        /\ (args.amount = F(100) /\ args.vat_rate = F(11)) => ret = F(11)

\* C7 witness: calculate_vat(100, 11) has returned 11
C7_Witness ==
    /\ Returned("calculate_vat")
    /\ args.amount = F(100) /\ args.vat_rate = F(11)
    /\ ret = F(11)

(***************************************************************************)
(* Properties of main                                                      *)
(***************************************************************************)
\* a pass of the loop with this choice has ended and its output stands
PassDone(choice) == pc = "menu" /\ Trim(last.choice) = choice

\* C6: in Gross-Up mode, for every accepted net salary n >= 0 and every
\* marital status and dependents entry, the monthly tax is 45,340 whatever n
\* is, the gross salary is n + 45,340 and the annual tax is 544,080; PTKP
\* and PKP = max(0, 12 * gross salary - PTKP) are computed from the gross
\* salary and the tax does not depend on them.
C6_GrossUpFixedTax ==
    (PassDone(<<"2">>) /\ out.kind = "pph21_gross_up") =>
        LET n == out.amount
            g == out.gross_salary
            diff == 12 * g.n - out.ptkp.n * g.d
        IN  /\ Accepted(last.amount) /\ n = AmountOf(last.amount)
            /\ out.monthly_tax = F(45340)
            /\ out.annual_tax = F(544080)
            /\ IsFinite(n) =>
                  /\ IsFinite(g) /\ g.n * n.d = (n.n + 45340 * n.d) * g.d
                  /\ IsFinite(out.pkp)
                  /\ out.pkp.n * g.d = (IF diff > 0 THEN diff ELSE 0) * out.pkp.d
            /\ n = INFINITY => g = INFINITY /\ out.pkp = INFINITY
            /\ out.ptkp = PtkpLookup(out.ptkp_key)

\* C6 witness: a net salary of 10,000,000, married with 2 dependents: gross
\* salary 10,045,340, tax 45,340 a month
C6_Witness ==
    /\ PassDone(<<"2">>)
    /\ out.kind = "pph21_gross_up"
    /\ out.amount = F(10000000)
    /\ out.ptkp_key = <<"K", "/", "2">>
    /\ out.gross_salary = F(10045340)
    /\ out.monthly_tax = F(45340)
    /\ out.pkp = F(120544080 - 67500000)

\* the lines of the model that are no number >= 0: no number at all, a
\* negative number, or NaN
BadAmountLines ==
    { <<>>, Line(<<>>), Line(<<"a", "b", "c">>), Line(<<"1", "2", "x">>),
      Line(<<"-", "i", "n", "f">>), Line(<<"N", "a", "N">>),
      Line(<<"-", "1">>), Line(<<"-", "1", "0", "0">>) }

\* the amount handed to a calculator by the call c
CallAmount(c) ==
    CASE c.fn = "calculate_pph21" -> c.gross_income
      [] c.fn = "calculate_income_tax" -> c.income
      [] OTHER -> c.amount

StatusCodes ==
    { <<"T", "K", "/", "0">>, <<"K", "/", "0">>, <<"K", "/", "1">>,
      <<"K", "/", "2">>, <<"K", "/", "3">> }

\* C9: in both PPh21 modes, for every marital-status entry and every
\* dependents entry, the status code looked up and displayed is one of TK/0,
\* K/0, K/1, K/2, K/3: an unmarried user has 0 dependents, the count is
\* clamped to [0, 3], an unparseable entry (a negative number too) becomes 0;
\* the PTKP shown is never the default 0.
C9_StatusCodeInTable ==
    (pc = "menu" /\ out.kind \in {"pph21_gross", "pph21_gross_up"}) =>
        /\ out.ptkp_key \in StatusCodes
        /\ out.num_dependents \in 0..3
        /\ ~out.is_married => out.num_dependents = 0
        /\ out.ptkp # F(0)

\* C10: in VAT mode a negative rate entry is rejected with the message, the
\* rate passed to calculate_vat is never negative (the parsed entry, or 11
\* for an empty entry), and the total printed is never below the price.
C10_VatRateNeverNegative ==
    /\ (PassDone(<<"4">>) /\ ParseF64(Trim(last.rate)).ok
          /\ FCmp(ParseF64(Trim(last.rate)).v, F(0)) < 0)
            => out = Rejected /\ calls = <<>>
    /\ (pc = "menu" /\ out.kind = "vat") =>
          /\ FGe(out.vat_rate, F(0))
          /\ Trim(last.rate) = <<>> => out.vat_rate = F(11)
          /\ FGe(out.total, out.amount)

\* what a pass that read the lines l prints, from those lines alone
PassOutput(l) ==
    LET c == Trim(l.choice)
        married == (Trim(l.status) = <<"2">>)
    IN  CASE c = <<"1">> ->
               GrossPrinted(l.amount, married,
                            IF married THEN DependentsU32(l.deps) ELSE 0)
          [] c = <<"2">> ->
               IF Accepted(l.amount)
               THEN GrossUpPrinted(AmountOf(l.amount), married,
                                   IF married THEN DependentsI32(l.deps) ELSE 0)
               ELSE Rejected
          [] c = <<"3">> ->
               IF Accepted(l.amount)
               THEN LET tax == calculate_income_tax(AmountOf(l.amount), tax_brackets)
                    IN  [kind |-> "income_tax", amount |-> AmountOf(l.amount),
                         tax |-> tax, net |-> FSub(AmountOf(l.amount), tax)]
               ELSE Rejected
          [] c = <<"4">> ->
               IF Accepted(l.amount)
               THEN LET vat == calculate_vat(AmountOf(l.amount), VatRateOf(l.rate))
                    IN  [kind |-> "vat", amount |-> AmountOf(l.amount),
                         vat_rate |-> VatRateOf(l.rate), vat |-> vat,
                         total |-> FAdd(AmountOf(l.amount), vat)]
               ELSE Rejected
          [] c = <<"5">> -> Goodbye
          [] OTHER -> InvalidChoice

\* how many lines the pass has read when the program waits at p
ReadsBefore(p) ==
    CASE p \in {"menu", "exit"} -> 0
      [] p \in {"gross_income", "gross_up_net", "tax_income", "vat_amount"} -> 1
      [] p \in {"gross_status", "gross_up_status", "vat_rate"} -> 2
      [] OTHER -> 3

\* between two passes the program holds no value of the pass that ended, and
\* what that pass printed is a function of the lines it read
C11_NothingCarried ==
    /\ pc \in {"menu", "exit"} =>
          /\ income = NoLine /\ amount = NoLine
          /\ net_salary = F(0) /\ is_married = FALSE
    /\ (pc \in {"menu", "exit"} /\ last.choice # NoLine) => out = PassOutput(last)
    /\ (pc \notin {"menu", "exit"}) => out = Nothing /\ calls = <<>>
    /\ pc = "menu" => ENABLED (\E line \in ChoiceLines : ReadChoice(line))
    /\ pc = "exit" => out = Goodbye /\ calls = <<>>

\* a step of main: the loop is left only from the menu on choice 5; any
\* other choice that is not 1..4 prints the invalid-choice message, calls
\* nothing and shows the menu again; a pass reads its lines in order and
\* ends at the menu; a new pass starts from the choice alone
C11_Step ==
    /\ pc # "exit"
    /\ pc' = "exit" => pc = "menu" /\ Trim(last'.choice) = <<"5">>
    /\ (pc = "menu" /\ Trim(last'.choice) = <<"5">>) => pc' = "exit"
    /\ (pc = "menu" /\ Trim(last'.choice)
            \notin {<<"1">>, <<"2">>, <<"3">>, <<"4">>, <<"5">>})
          => pc' = "menu" /\ out' = InvalidChoice /\ calls' = <<>>
    /\ pc = "menu" => last' = [NoLines EXCEPT !.choice = last'.choice]
    /\ pc' \notin {"menu", "exit"} => ReadsBefore(pc') = ReadsBefore(pc) + 1
    /\ pc # "menu" => pc' # "exit" /\ last'.choice = last.choice

====
